---------------------------- MODULE Spec2Model ----------------------------
(***************************************************************************)
(* QDMBoxSearch: the mbox loader and the substring search of                *)
(* mbox_search_gui.py (MBoxLoader, MainWindow) and mbox_search.py           *)
(* (MBoxSearcher, main).                                                    *)
(*                                                                         *)
(* A file is a sequence of bytes (one-character strings).  Both passes of   *)
(* the GUI loader read the same bytes: the pre-scan counts b'\nFrom ' per   *)
(* chunk, mailbox.mbox splits the bytes at the lines that start with        *)
(* "From ".  Message sizes and the chunk size are scaled down; a message    *)
(* is                                                                       *)
(*     From \n  S<subject>\n  \n  <body>\n                                   *)
(* with a one-letter header key S standing for "Subject: ".                 *)
(***************************************************************************)
EXTENDS Integers, Sequences, FiniteSets, TLC

(* ------------------------------ bounds -------------------------------- *)

\* Largest number of messages in a file.
MaxMsgs == 3

\* Number of loads one run of the GUI (or one MBoxSearcher object) starts.
MaxLoads == 2

\* Bytes per read of the pre-scan: stands for chunk_size = 1024 * 1024.
ChunkSize == 18

(* ------------------------------- bytes -------------------------------- *)

NL == "\n"

FromBytes == <<"F", "r", "o", "m", " ">>

\* b'\nFrom ', the pattern the pre-scan counts.
ScanPattern == <<NL>> \o FromBytes

Min(a, b) == IF a < b THEN a ELSE b

\* str.lower() on one character of the alphabet in use.
LowerChar(c) ==
    CASE c = "A" -> "a"
      [] c = "B" -> "b"
      [] c = "F" -> "f"
      [] c = "S" -> "s"
      [] OTHER -> c

\* str.lower()
Lower(s) == [i \in 1..Len(s) |-> LowerChar(s[i])]

\* Python's `needle in hay` on strings.
Contains(needle, hay) ==
    \E k \in 0..(Len(hay) - Len(needle)) :
        SubSeq(hay, k + 1, k + Len(needle)) = needle

\* bytes.count(pattern): non-overlapping occurrences, scanning left to right.
RECURSIVE CountFrom(_, _, _)
CountFrom(chunk, pattern, p) ==
    IF p + Len(pattern) - 1 > Len(chunk) THEN 0
    ELSE IF SubSeq(chunk, p, p + Len(pattern) - 1) = pattern
         THEN 1 + CountFrom(chunk, pattern, p + Len(pattern))
         ELSE CountFrom(chunk, pattern, p + 1)

Count(chunk, pattern) == CountFrom(chunk, pattern, 1)

(* ------------------------------- files -------------------------------- *)

\* The messages files are written from: subject and body text.
MsgPool ==
    << [subject |-> <<"A", "b">>,      body |-> <<"b">>],
       [subject |-> <<"b">>,           body |-> <<"a", "b">>],
       [subject |-> <<"b", "a", "B">>, body |-> <<"B">>] >>

\* One message as it stands in an mbox file.
MsgBytes(m) ==
    FromBytes \o <<NL>> \o <<"S">> \o m.subject \o <<NL>> \o <<NL>>
        \o m.body \o <<NL>>

RECURSIVE Concat(_)
Concat(ss) == IF ss = <<>> THEN <<>> ELSE Head(ss) \o Concat(Tail(ss))

\* The file holding n messages, those of the pool in turn.
FileBytes(n) ==
    Concat([i \in 1..n |-> MsgBytes(MsgPool[((i - 1) % Len(MsgPool)) + 1])])

\* A path of the file system: whether it exists, whether reads of it may
\* raise an I/O error, and the bytes of the file.
MissingPath == [exists |-> FALSE, flaky |-> FALSE, bytes |-> <<>>]

GoodFiles ==
    { [exists |-> TRUE, flaky |-> FALSE, bytes |-> FileBytes(n)] :
        n \in 0..MaxMsgs }
    \cup
    \* mbox files that start with a blank line
    { [exists |-> TRUE, flaky |-> FALSE, bytes |-> <<NL>> \o FileBytes(n)] :
        n \in 1..2 }

FlakyFiles ==
    { [exists |-> TRUE, flaky |-> TRUE, bytes |-> FileBytes(MaxMsgs)] }

Paths == {MissingPath} \cup GoodFiles \cup FlakyFiles

\* Messages with Date and Content-Type headers (D, T), written line by line
\* without the line ends: dates that parse, a date that does not, none;
\* bodies of one payload and bodies of parts, "#" a byte that does not decode.
MimePool ==
    << \* a date, text/plain by default
       << <<"D", "1">>, <<"S", "a">>, <<>>, <<"b">> >>,
       \* a date that does not parse; a payload that does not decode
       << <<"D", "?">>, <<"S", "b">>, <<>>, <<"a", "#">> >>,
       \* no date; a plain part, an attachment, an html part
       << <<"S", "a", "b">>, <<"T", "m">>, <<>>,
          <<"-">>, <<>>, <<"a">>,
          <<"-">>, <<"T", "x">>, <<>>, <<"z">>,
          <<"-">>, <<"T", "h">>, <<>>, <<"h">> >>,
       \* plain and html parts that do not decode, a plain part that does
       << <<"D", "2">>, <<"T", "m">>, <<>>,
          <<"-">>, <<"T", "p">>, <<>>, <<"#">>,
          <<"-">>, <<>>, <<"b">>,
          <<"-">>, <<"T", "h">>, <<>>, <<"#">>,
          <<"-">>, <<"T", "x">>, <<>>, <<"z">> >>,
       \* an empty Date header; text/html, not multipart
       << <<"D">>, <<"T", "h">>, <<>>, <<"h">> >>,
       \* two plain parts around an attachment, and a preamble
       << <<"D", "1">>, <<"T", "m">>, <<>>, <<"z">>,
          <<"-">>, <<>>, <<"a">>,
          <<"-">>, <<"T", "x">>, <<>>, <<"z">>,
          <<"-">>, <<"T", "p">>, <<>>, <<"b">> >> >>

\* One such message as it stands in an mbox file.
MimeBytes(lines) ==
    FromBytes \o <<NL>> \o Concat([k \in 1..Len(lines) |-> lines[k] \o <<NL>>])

\* The file of the n messages of the pool from the first-th on, in turn.
MimeFileBytes(first, n) ==
    Concat([i \in 1..n |->
               MimeBytes(MimePool[((first + i - 2) % Len(MimePool)) + 1])])

\* The files of such messages: MaxMsgs messages each, and files of one.
MimeFiles ==
    { [exists |-> TRUE, flaky |-> FALSE, bytes |-> MimeFileBytes(first, n)] :
        first \in 1..Len(MimePool), n \in {1, MaxMsgs} }

(* --------------------------- mailbox.mbox ----------------------------- *)

\* Index of the first NL of bs, or Len(bs) when there is none.
RECURSIVE LineEnd(_, _)
LineEnd(bs, p) ==
    IF p >= Len(bs) THEN Len(bs)
    ELSE IF bs[p] = NL THEN p ELSE LineEnd(bs, p + 1)

\* The lines of bs, each with its line end.
RECURSIVE SplitLines(_)
SplitLines(bs) ==
    IF bs = <<>> THEN <<>>
    ELSE LET k == LineEnd(bs, 1)
         IN  <<SubSeq(bs, 1, k)>> \o SplitLines(SubSeq(bs, k + 1, Len(bs)))

IsFromLine(line) ==
    Len(line) >= Len(FromBytes) /\ SubSeq(line, 1, Len(FromBytes)) = FromBytes

\* mailbox.mbox's table of contents: a line that starts with "From " opens
\* a message, the lines up to the next such line are the message's text, and
\* lines before the first "From " line belong to no message.
RECURSIVE Toc(_, _, _)
Toc(lines, open, acc) ==
    IF lines = <<>> THEN acc
    ELSE IF IsFromLine(Head(lines))
         THEN Toc(Tail(lines), TRUE, Append(acc, <<>>))
         ELSE IF open
              THEN Toc(Tail(lines), TRUE,
                       [acc EXCEPT ![Len(acc)] = Append(@, Head(lines))])
              ELSE Toc(Tail(lines), FALSE, acc)

\* The messages of a file, each as its lines.
Mbox(bytes) == Toc(SplitLines(bytes), FALSE, <<>>)

\* Number of header lines of a message: the lines before the first blank one.
RECURSIVE HeaderCount(_)
HeaderCount(lines) ==
    IF lines = <<>> \/ Head(lines) = <<NL>> THEN 0
    ELSE 1 + HeaderCount(Tail(lines))

StripNL(line) ==
    IF line # <<>> /\ line[Len(line)] = NL
    THEN SubSeq(line, 1, Len(line) - 1) ELSE line

\* message.get(key, ''): the value of the first header with that key.
RECURSIVE GetHeader(_, _)
GetHeader(headers, key) ==
    IF headers = <<>> THEN <<>>
    ELSE IF Head(headers)[1] = key
         THEN StripNL(Tail(Head(headers)))
         ELSE GetHeader(Tail(headers), key)

Headers(msg) == SubSeq(msg, 1, HeaderCount(msg))

\* The payload of a message that is not multipart: the bytes after the
\* blank line.
Payload(msg) == Concat(SubSeq(msg, HeaderCount(msg) + 2, Len(msg)))

\* The lines after the blank line that ends the headers.
BodyLines(msg) == SubSeq(msg, HeaderCount(msg) + 2, Len(msg))

\* date=None
None == "None"

\* email.utils.parsedate_to_datetime: the datetime a well-formed date string
\* denotes, or an exception.  The date strings in use are one character
\* long: "1" and "2" are well formed, anything else is not.
parsedate_to_datetime(date_header) ==
    IF date_header = <<"1">> THEN [raises |-> FALSE, value |-> "day 1"]
    ELSE IF date_header = <<"2">> THEN [raises |-> FALSE, value |-> "day 2"]
    ELSE [raises |-> TRUE, value |-> None]

\* A loader that parses the date outside of a try block.
DateObjUnguarded(message) ==
    LET date_header == GetHeader(Headers(message), "D") IN
    IF date_header = <<>> THEN [raises |-> FALSE, value |-> None]
    ELSE parsedate_to_datetime(date_header)

\* Lines 78-85 (mbox_search.py lines 66-73): date_obj, and whether an
\* exception leaves the block.
DateObj(message) ==
    LET date_header == GetHeader(Headers(message), "D") IN
    IF date_header = <<>> THEN [raises |-> FALSE, value |-> None]
    ELSE LET parsed == parsedate_to_datetime(date_header) IN
         IF parsed.raises THEN [raises |-> FALSE, value |-> None] ELSE parsed

\* message.get_content_type(): the header T holds one letter, m for
\* multipart/mixed, h for text/html, p for text/plain, any other for a type
\* that is no text; a message without the header is text/plain.
get_content_type(part) ==
    LET t == GetHeader(Headers(part), "T") IN
    IF t = <<>> \/ t = <<"p">> THEN "text/plain"
    ELSE IF t = <<"h">> THEN "text/html"
    ELSE IF t = <<"m">> THEN "multipart/mixed"
    ELSE "application/octet-stream"

is_multipart(message) == get_content_type(message) = "multipart/mixed"

\* The line that separates the parts of a multipart message.
Boundary == <<"-", NL>>

\* The parts of a multipart body: the lines between one boundary line and
\* the next; the lines before the first boundary belong to no part.
RECURSIVE SplitParts(_, _, _)
SplitParts(lines, open, acc) ==
    IF lines = <<>> THEN acc
    ELSE IF Head(lines) = Boundary
         THEN SplitParts(Tail(lines), TRUE, Append(acc, <<>>))
         ELSE IF open
              THEN SplitParts(Tail(lines), TRUE,
                              [acc EXCEPT ![Len(acc)] = Append(@, Head(lines))])
              ELSE SplitParts(Tail(lines), FALSE, acc)

\* message.walk(): the message itself, then its parts in their order.
walk(message) ==
    <<message>> \o SplitParts(BodyLines(message), FALSE, <<>>)

\* part.get_payload(decode=True) of a part that is not multipart: its bytes;
\* the line end before a boundary belongs to the boundary.
PartPayload(part) == StripNL(Concat(BodyLines(part)))

\* bytes.decode(): the byte "#" stands for one that is not valid UTF-8.
Decode(payload) ==
    [raises |-> \E k \in 1..Len(payload) : payload[k] = "#",
     value |-> payload]

\* message.get_payload() without decode: the text of the payload, a byte
\* that is no ASCII replaced by U+FFFD, written "?".
RawPayload(msg) ==
    [k \in 1..Len(Payload(msg)) |->
        IF Payload(msg)[k] = "#" THEN "?" ELSE Payload(msg)[k]]

\* Lines 91-102: the loop over message.walk() of the window's loader.
RECURSIVE WalkLoop(_, _, _)
WalkLoop(parts, body, html_body) ==
    IF parts = <<>> THEN [body |-> body, html_body |-> html_body]
    ELSE LET part == Head(parts)
             content_type == get_content_type(part)
             decoded == Decode(PartPayload(part))
         IN  IF content_type = "text/plain" /\ ~decoded.raises
             THEN WalkLoop(Tail(parts), body \o decoded.value, html_body)
             ELSE IF content_type = "text/html" /\ ~decoded.raises
             THEN WalkLoop(Tail(parts), body, html_body \o decoded.value)
             ELSE WalkLoop(Tail(parts), body, html_body)

\* Lines 87-110: body and html_body after the if statement.
LoaderBodies(message) ==
    IF is_multipart(message)
    THEN WalkLoop(walk(message), <<>>, <<>>)
    ELSE LET decoded == Decode(Payload(message)) IN
         IF decoded.raises
         THEN [body |-> RawPayload(message), html_body |-> <<>>]
         ELSE IF get_content_type(message) = "text/html"
              THEN [body |-> <<>>, html_body |-> decoded.value]
              ELSE [body |-> decoded.value, html_body |-> <<>>]

\* A loader that shows the plain text whenever there is some.
LoaderBodyPlainFirst(message) ==
    LET r == LoaderBodies(message) IN
    IF r.body # <<>> THEN r.body ELSE r.html_body

\* Line 117: body=html_body if html_body else body
LoaderBody(message) ==
    LET r == LoaderBodies(message) IN
    IF r.html_body # <<>> THEN r.html_body ELSE r.body

\* mbox_search.py lines 102-107: the loop over message.walk().
RECURSIVE SearcherWalkLoop(_, _)
SearcherWalkLoop(parts, body) ==
    IF parts = <<>> THEN body
    ELSE LET part == Head(parts)
             decoded == Decode(PartPayload(part))
         IN  IF get_content_type(part) = "text/plain" /\ ~decoded.raises
             THEN SearcherWalkLoop(Tail(parts), body \o decoded.value)
             ELSE SearcherWalkLoop(Tail(parts), body)

\* MBoxSearcher._get_message_body(message)
get_message_body(message) ==
    IF is_multipart(message)
    THEN SearcherWalkLoop(walk(message), <<>>)
    ELSE LET decoded == Decode(Payload(message)) IN
         IF decoded.raises THEN RawPayload(message) ELSE decoded.value

\* EmailMessage(...) of the window's loader, mbox_search_gui.py lines
\* 112-118.
EmailMessage(msg) ==
    [subject |-> GetHeader(Headers(msg), "S"),
     date |-> DateObj(msg).value,
     body |-> LoaderBody(msg)]

\* EmailMessage(...) of MBoxSearcher.load_mbox, mbox_search.py lines 74-80.
SearcherMessage(msg) ==
    [subject |-> GetHeader(Headers(msg), "S"),
     date |-> DateObj(msg).value,
     body |-> get_message_body(msg)]

\* The records MBoxSearcher.load_mbox appends for a whole file, in the order
\* of iteration.
Records(bytes) ==
    [i \in 1..Len(Mbox(bytes)) |-> SearcherMessage(Mbox(bytes)[i])]

\* The records the window's loader builds for a whole file.
LoaderRecords(bytes) ==
    [i \in 1..Len(Mbox(bytes)) |-> EmailMessage(Mbox(bytes)[i])]

(* ------------------------------ search -------------------------------- *)

\* MBoxSearcher.search, the loop of mbox_search.py lines 130-139.  `query`
\* is already lowered.
RECURSIVE SearcherLoop(_, _, _, _, _)
SearcherLoop(msgs, query, search_subject, search_body, results) ==
    IF msgs = <<>> THEN results
    ELSE LET message == Head(msgs)
             match ==
                 \/ search_subject /\ Contains(query, Lower(message.subject))
                 \/ search_body /\ Contains(query, Lower(message.body))
         IN  SearcherLoop(Tail(msgs), query, search_subject, search_body,
                          IF match THEN Append(results, message) ELSE results)

Reverse(seq) == [k \in 1..Len(seq) |-> seq[Len(seq) + 1 - k]]

\* A search that lists the newest match first.
search_newest_first(msgs, query, search_subject, search_body) ==
    Reverse(SearcherLoop(msgs, Lower(query), search_subject, search_body, <<>>))

\* A search that takes an empty query for no query and finds nothing.
search_rejecting_empty(msgs, query, search_subject, search_body) ==
    IF query = <<>> THEN <<>>
    ELSE SearcherLoop(msgs, Lower(query), search_subject, search_body, <<>>)

\* MBoxSearcher.search(query, search_subject, search_body) over self.messages.
search(msgs, query, search_subject, search_body) ==
    SearcherLoop(msgs, Lower(query), search_subject, search_body, <<>>)

SearchTypes == {"Subject", "Body", "Both"}

\* MainWindow.search, the loop of mbox_search_gui.py lines 352-363.
RECURSIVE WindowLoop(_, _, _, _)
WindowLoop(msgs, query, type, results) ==
    IF msgs = <<>> THEN results
    ELSE LET message == Head(msgs)
             match ==
                 \/ type \in {"Subject", "Both"}
                    /\ Contains(query, Lower(message.subject))
                 \/ type \in {"Body", "Both"}
                    /\ Contains(query, Lower(message.body))
         IN  WindowLoop(Tail(msgs), query, type,
                        IF match THEN Append(results, message) ELSE results)

\* A search that compares the text of the search box as typed.
WindowSearchAsTyped(msgs, text, type) == WindowLoop(msgs, text, type, <<>>)

\* What MainWindow.search hands to display_results, given self.messages, the
\* text of the search box and the current text of the combo box.
WindowSearch(msgs, text, type) == WindowLoop(msgs, Lower(text), type, <<>>)

\* The texts typed into the search box, or given to the menu loop.
Queries == { <<>>, <<"A", "B">> }

(* ------------------------- progress arithmetic ------------------------- *)

RECURSIVE GCD(_, _)
GCD(a, b) == IF b = 0 THEN a ELSE GCD(b, a % b)

RECURSIVE IsPowerOfTwo(_)
IsPowerOfTwo(n) ==
    IF n = 1 THEN TRUE
    ELSE IF n % 2 = 1 THEN FALSE ELSE IsPowerOfTwo(n \div 2)

\* int((n / d) * 50) for integers 0 <= n, 0 < d, computed in binary floating
\* point as Python does.  The exact quotient floors exactly unless n / d is
\* rounded (d / gcd(n, d) is no power of two) and 50 * n / d is an integer k:
\* then the product may come out just below k, and int() gives k - 1.
IntRatioTimes50(n, d) ==
    LET exact == (n * 50) \div d
    IN  IF (n * 50) % d = 0 /\ ~IsPowerOfTwo(d \div GCD(n, d))
        THEN {exact, exact - 1}
        ELSE {exact}

\* Line 67: the progress of the pre-scan after bytes_processed bytes.
ScanProgress(bytes_processed, file_size) ==
    IntRatioTimes50(bytes_processed, file_size)

\* A loader that forgets the first half of the bar in the second pass.
LoadProgressNoBase(current_message, message_count) ==
    IntRatioTimes50(current_message, message_count)

\* Line 122: the progress after current_message messages, message_count > 0.
LoadProgress(current_message, message_count) ==
    { 50 + share : share \in IntRatioTimes50(current_message, message_count) }

(* ------------------------------- state -------------------------------- *)

VARIABLES
    program,            \* which entry point runs: "gui", "cli" (main of
                        \* mbox_search.py) or "api" (a caller of MBoxSearcher)
    \* mbox_search_gui.py
    messages,           \* MainWindow.messages
    search_input,       \* text of MainWindow.search_input
    search_type,        \* current text of MainWindow.search_type
    results_table,      \* the records shown by MainWindow.results_table
    progress_bar,       \* MainWindow.progress_bar: visible, value
    loader,             \* MainWindow.loader: number of the newest MBoxLoader
    threads,            \* the MBoxLoader threads: position and locals of run
    emitted,            \* per loader, the signals it has emitted, in order
    delivered,          \* per loader, how many of them reached their slot
    error_boxes,        \* per loader, the QMessageBox.critical boxes shown
    \* mbox_search.py
    mbox_path,          \* MBoxSearcher.mbox_path
    searcher_messages,  \* MBoxSearcher.messages
    searcher_loads,     \* calls of MBoxSearcher.load_mbox so far
    cli_pc,             \* "start", "menu" or "exited"
    cli_errors,         \* error lines printed by load_mbox
    displayed           \* the results last handed to display_results

gui_vars == <<messages, search_input, search_type, results_table, progress_bar,
              loader, threads, emitted, delivered, error_boxes>>

cli_vars == <<mbox_path, searcher_messages, searcher_loads, cli_pc, cli_errors,
              displayed>>

vars == <<program, gui_vars, cli_vars>>

Loaders == 1..MaxLoads

\* An MBoxLoader that was not created yet.
NoThread ==
    [pc |-> "none", mbox_path |-> MissingPath, file_size |-> 0,
     bytes_processed |-> 0, message_count |-> 0, messages |-> <<>>,
     current_message |-> 0]

\* MBoxLoader(file_path) after start(): run is about to begin.
NewThread(path) == [NoThread EXCEPT !.pc = "start", !.mbox_path = path]

\* The state after construction, the path given to MBoxSearcher among
\* `paths`.
InitWith(paths) ==
    /\ program \in {"gui", "cli", "api"}
    /\ messages = <<>>
    /\ search_input = <<>>
    /\ search_type = "Subject"
    /\ results_table = <<>>
    /\ progress_bar = [visible |-> FALSE, value |-> -1]
    /\ loader = 0
    /\ threads = [i \in Loaders |-> NoThread]
    /\ emitted = [i \in Loaders |-> <<>>]
    /\ delivered = [i \in Loaders |-> 0]
    /\ error_boxes = [i \in Loaders |-> 0]
    /\ mbox_path \in (IF program = "gui" THEN {MissingPath} ELSE paths)
    /\ searcher_messages = <<>>
    /\ searcher_loads = 0
    /\ cli_pc = "start"
    /\ cli_errors = 0
    /\ displayed = <<>>

Init == InitWith(Paths)

(* ------------------------- MBoxLoader.run (GUI) ------------------------ *)

\* signal.emit(val) of loader i: queued for the slot connected in load_mbox.
Emit(i, sig, val) ==
    emitted' = [emitted EXCEPT ![i] = Append(@, [sig |-> sig, val |-> val])]

\* An except clause that reports the error and lets the loop go on.
RaiseAndGoOn(i, cause, locals) ==
    /\ threads' = [threads EXCEPT ![i] = [locals EXCEPT !.pc = threads[i].pc]]
    /\ Emit(i, "error", cause)

\* The except clause of run, line 127-128: emit error, and run returns.
Raise(i, cause, locals) ==
    /\ threads' = [threads EXCEPT ![i] = [locals EXCEPT !.pc = "done"]]
    /\ Emit(i, "error", cause)

\* Lines 51-58: os.path.getsize and open.
RunStart(i) ==
    LET t == threads[i] IN
    /\ program = "gui"
    /\ t.pc = "start"
    /\ IF ~t.mbox_path.exists
       THEN Raise(i, "FileNotFoundError", t)
       ELSE /\ threads' = [threads EXCEPT ![i] =
                   [t EXCEPT !.pc = "scan",
                             !.file_size = Len(t.mbox_path.bytes)]]
            /\ UNCHANGED emitted
    /\ UNCHANGED <<program, messages, search_input, search_type, results_table,
                   progress_bar, loader, delivered, error_boxes, cli_vars>>

\* Lines 59-75: one read of the pre-scan and its progress signal, or, at the
\* end of the file, the step to the second pass.
RunScan(i) ==
    LET t == threads[i]
        bytes == t.mbox_path.bytes
        chunk == SubSeq(bytes, t.bytes_processed + 1,
                        Min(t.bytes_processed + ChunkSize, Len(bytes)))
        read == [t EXCEPT !.bytes_processed = @ + Len(chunk),
                          !.message_count = @ + Count(chunk, ScanPattern)]
    IN
    /\ program = "gui"
    /\ t.pc = "scan"
    /\ IF chunk = <<>>
       THEN /\ threads' = [threads EXCEPT ![i] = [t EXCEPT !.pc = "load"]]
            /\ UNCHANGED emitted
       ELSE /\ threads' = [threads EXCEPT ![i] = read]
            /\ \E progress \in ScanProgress(read.bytes_processed, t.file_size) :
                   Emit(i, "progress", progress)
    /\ UNCHANGED <<program, messages, search_input, search_type, results_table,
                   progress_bar, loader, delivered, error_boxes, cli_vars>>

\* Lines 77-126: one turn of `for message in mbox` with its progress signal
\* (the division by a zero message_count raises after the append), or, after
\* the last message, finished.
RunLoad(i) ==
    LET t == threads[i]
        mbox == Mbox(t.mbox_path.bytes)
        next == [t EXCEPT !.messages =
                              Append(@, EmailMessage(mbox[t.current_message + 1])),
                          !.current_message = @ + 1]
    IN
    /\ program = "gui"
    /\ t.pc = "load"
    /\ IF t.current_message < Len(mbox)
       THEN IF DateObj(mbox[t.current_message + 1]).raises
            THEN Raise(i, "ValueError", t)
            ELSE IF t.message_count = 0
            THEN Raise(i, "ZeroDivisionError", next)
            ELSE /\ threads' = [threads EXCEPT ![i] = next]
                 /\ \E progress \in LoadProgress(next.current_message,
                                                  t.message_count) :
                        Emit(i, "progress", progress)
       ELSE /\ threads' = [threads EXCEPT ![i] = [t EXCEPT !.pc = "done"]]
            /\ Emit(i, "finished", t.messages)
    /\ UNCHANGED <<program, messages, search_input, search_type, results_table,
                   progress_bar, loader, delivered, error_boxes, cli_vars>>

\* A read of the file fails (getsize, open, f.read, the mailbox iterator):
\* the OSError reaches the except clause of run.
RunIOError(i) ==
    LET t == threads[i] IN
    /\ program = "gui"
    /\ t.pc \in {"start", "scan", "load"}
    /\ t.mbox_path.exists
    /\ t.mbox_path.flaky
    /\ Raise(i, "OSError", t)
    /\ UNCHANGED <<program, messages, search_input, search_type, results_table,
                   progress_bar, loader, delivered, error_boxes, cli_vars>>

(* ----------------------------- MainWindow ----------------------------- *)

\* MainWindow.load_mbox(file_path), called by select_file with the chosen
\* path: a new MBoxLoader replaces self.loader and is started.  A loader
\* still running keeps running, its signals stay connected.
load_mbox(path) ==
    /\ program = "gui"
    /\ loader < MaxLoads
    /\ progress_bar' = [visible |-> TRUE, value |-> 0]
    /\ loader' = loader + 1
    /\ threads' = [threads EXCEPT ![loader + 1] = NewThread(path)]
    /\ UNCHANGED <<program, messages, search_input, search_type, results_table,
                   emitted, delivered, error_boxes, cli_vars>>

\* The oldest signal of loader i that has not reached its slot.  The signals
\* of one loader arrive in the order emitted; the main thread takes the
\* signals of two loaders in the order the loaders happened to emit them,
\* which is any merge of the two.
Pending(i) == delivered[i] < Len(emitted[i])

HeadSignal(i) == emitted[i][delivered[i] + 1]

\* QProgressBar.setValue with the default range 0..100: a value outside the
\* range leaves the current value alone.
SetValue(bar, value) ==
    IF value \in 0..100 THEN [bar EXCEPT !.value = value] ELSE bar

\* MainWindow.update_progress(value)
update_progress(i) ==
    /\ program = "gui"
    /\ Pending(i)
    /\ HeadSignal(i).sig = "progress"
    /\ delivered' = [delivered EXCEPT ![i] = @ + 1]
    /\ progress_bar' = SetValue(progress_bar, HeadSignal(i).val)
    /\ UNCHANGED <<program, messages, search_input, search_type, results_table,
                   loader, threads, emitted, error_boxes, cli_vars>>

\* MainWindow.loading_finished(messages), with the search it ends with.
loading_finished(i) ==
    /\ program = "gui"
    /\ Pending(i)
    /\ HeadSignal(i).sig = "finished"
    /\ delivered' = [delivered EXCEPT ![i] = @ + 1]
    /\ messages' = HeadSignal(i).val
    /\ progress_bar' = [progress_bar EXCEPT !.visible = FALSE]
    /\ results_table' = WindowSearch(messages', search_input, search_type)
    /\ UNCHANGED <<program, search_input, search_type, loader, threads, emitted,
                   error_boxes, cli_vars>>

\* A loading_error that also drops the batch held.
loading_error_clearing(i) ==
    /\ program = "gui"
    /\ Pending(i)
    /\ HeadSignal(i).sig = "error"
    /\ delivered' = [delivered EXCEPT ![i] = @ + 1]
    /\ progress_bar' = [progress_bar EXCEPT !.visible = FALSE]
    /\ error_boxes' = [error_boxes EXCEPT ![i] = @ + 1]
    /\ messages' = <<>>
    /\ UNCHANGED <<program, search_input, search_type, results_table,
                   loader, threads, emitted, cli_vars>>

\* MainWindow.loading_error(error_msg)
loading_error(i) ==
    /\ program = "gui"
    /\ Pending(i)
    /\ HeadSignal(i).sig = "error"
    /\ delivered' = [delivered EXCEPT ![i] = @ + 1]
    /\ progress_bar' = [progress_bar EXCEPT !.visible = FALSE]
    /\ error_boxes' = [error_boxes EXCEPT ![i] = @ + 1]
    /\ UNCHANGED <<program, messages, search_input, search_type, results_table,
                   loader, threads, emitted, cli_vars>>

\* The user types into the search box.
EditQuery(text) ==
    /\ program = "gui"
    /\ text # search_input
    /\ search_input' = text
    /\ UNCHANGED <<program, messages, search_type, results_table, progress_bar,
                   loader, threads, emitted, delivered, error_boxes, cli_vars>>

\* The user picks an entry of the combo box.
SelectType(type) ==
    /\ program = "gui"
    /\ type # search_type
    /\ search_type' = type
    /\ UNCHANGED <<program, messages, search_input, results_table, progress_bar,
                   loader, threads, emitted, delivered, error_boxes, cli_vars>>

\* MainWindow.search, on the Search button or Return in the search box.
ClickSearch ==
    /\ program = "gui"
    /\ results_table' = WindowSearch(messages, search_input, search_type)
    /\ UNCHANGED <<program, messages, search_input, search_type, progress_bar,
                   loader, threads, emitted, delivered, error_boxes, cli_vars>>

(* ---------------------- MBoxSearcher and main (CLI) -------------------- *)

\* MBoxSearcher.load_mbox on an object holding `held`: what self.messages
\* is when the call leaves, and whether it leaves by sys.exit(1).  Records
\* are appended to self.messages one by one; an exception that leaves the
\* loop body, or an I/O error of a flaky file after any number of records,
\* ends the load at line 86.
load_mbox_outcomes(path, held) ==
    IF ~path.exists
    THEN {[messages |-> held, exit |-> TRUE]}
    ELSE LET mbox == Mbox(path.bytes)
             records == Records(path.bytes)
             \* the messages at which an exception leaves the loop body
             raising == {k \in 1..Len(mbox) : DateObj(mbox[k]).raises}
             reach == IF raising = {} THEN Len(mbox)
                      ELSE (CHOOSE k \in raising : \A j \in raising : k <= j) - 1
         IN
         {[messages |-> held \o SubSeq(records, 1, reach),
           exit |-> raising # {}]}
         \cup
         (IF path.flaky
          THEN {[messages |-> held \o SubSeq(records, 1, k), exit |-> TRUE] :
                  k \in 0..(reach - 1)}
          ELSE {})

\* searcher.load_mbox() as main calls it, line 181; sys.exit(1) ends the
\* process (SystemExit is no Exception: main does not catch it).
LoadCall ==
    /\ searcher_loads < MaxLoads
    /\ \E out \in load_mbox_outcomes(mbox_path, searcher_messages) :
          /\ searcher_messages' = out.messages
          /\ cli_pc' = IF out.exit THEN "exited" ELSE "menu"
          /\ cli_errors' = IF out.exit THEN cli_errors + 1 ELSE cli_errors
    /\ searcher_loads' = searcher_loads + 1
    /\ UNCHANGED <<program, gui_vars, mbox_path, displayed>>

MainLoad ==
    /\ program = "cli"
    /\ cli_pc = "start"
    /\ LoadCall

\* One turn of the menu loop of main, lines 183-208.
Choices == {"1", "2", "3", "4", "x"}

MainMenu(choice, query) ==
    /\ program = "cli"
    /\ cli_pc = "menu"
    /\ IF choice = "4"
       THEN /\ cli_pc' = "exited"
            /\ UNCHANGED displayed
       ELSE IF choice \notin {"1", "2", "3"} \/ query = <<>>
            THEN UNCHANGED <<cli_pc, displayed>>
            ELSE /\ displayed' = search(searcher_messages, query,
                                        choice \in {"1", "3"},
                                        choice \in {"2", "3"})
                 /\ UNCHANGED cli_pc
    /\ UNCHANGED <<program, gui_vars, mbox_path, searcher_messages,
                   searcher_loads, cli_errors>>

\* A caller other than main calls load_mbox on its MBoxSearcher, possibly
\* again on the same object.
ApiLoad ==
    /\ program = "api"
    /\ cli_pc # "exited"
    /\ LoadCall

\* A caller other than main calls search and shows the result.
ApiSearch(query, search_subject, search_body) ==
    /\ program = "api"
    /\ cli_pc # "exited"
    /\ displayed' = search(searcher_messages, query, search_subject, search_body)
    /\ UNCHANGED <<program, gui_vars, mbox_path, searcher_messages,
                   searcher_loads, cli_pc, cli_errors>>

(* --------------------------- specifications --------------------------- *)

\* The user starts the first load of the window.
FirstLoad(path) == loader = 0 /\ load_mbox(path)

\* Either program, the window loading one file: the loader thread, the
\* slots, the search widgets; main's menu loop; callers of MBoxSearcher.
Next ==
    \/ \E i \in Loaders : RunStart(i)
    \/ \E i \in Loaders : RunScan(i)
    \/ \E i \in Loaders : RunLoad(i)
    \/ \E i \in Loaders : RunIOError(i)
    \/ \E path \in Paths : FirstLoad(path)
    \/ \E i \in Loaders : update_progress(i)
    \/ \E i \in Loaders : loading_finished(i)
    \/ \E i \in Loaders : loading_error(i)
    \/ \E text \in Queries : EditQuery(text)
    \/ \E type \in SearchTypes : SelectType(type)
    \/ ClickSearch
    \/ MainLoad
    \/ \E choice \in Choices, query \in Queries : MainMenu(choice, query)
    \/ ApiLoad
    \/ \E query \in Queries, ss \in BOOLEAN, sb \in BOOLEAN :
           ApiSearch(query, ss, sb)

Spec == Init /\ [][Next]_vars

\* Either program, the window loading file after file, a load started while
\* earlier ones may still run; the user leaves the search widgets as they are.
ReloadNext ==
    \/ \E i \in Loaders : RunStart(i)
    \/ \E i \in Loaders : RunScan(i)
    \/ \E i \in Loaders : RunLoad(i)
    \/ \E i \in Loaders : RunIOError(i)
    \/ \E path \in Paths : load_mbox(path)
    \/ \E i \in Loaders : update_progress(i)
    \/ \E i \in Loaders : loading_finished(i)
    \/ \E i \in Loaders : loading_error(i)
    \/ MainLoad
    \/ \E choice \in Choices, query \in Queries : MainMenu(choice, query)
    \/ ApiLoad
    \/ \E query \in Queries, ss \in BOOLEAN, sb \in BOOLEAN :
           ApiSearch(query, ss, sb)

ReloadSpec == Init /\ [][ReloadNext]_vars

\* Either program loading a file of messages with dates and parts: the
\* loader thread and the slots of the window, load_mbox of main and of
\* another caller, and the searches over what was loaded.
MimeInit == InitWith(MimeFiles)

MimeNext ==
    \/ \E i \in Loaders : RunStart(i)
    \/ \E i \in Loaders : RunScan(i)
    \/ \E i \in Loaders : RunLoad(i)
    \/ \E path \in MimeFiles : FirstLoad(path)
    \/ \E i \in Loaders : update_progress(i)
    \/ \E i \in Loaders : loading_finished(i)
    \/ \E i \in Loaders : loading_error(i)
    \/ MainLoad
    \/ \E choice \in Choices, query \in Queries : MainMenu(choice, query)
    \/ ApiLoad

MimeSpec == MimeInit /\ [][MimeNext]_vars

(* ------------------------------ properties ---------------------------- *)

\* The values loader i has emitted on its progress signal, in order.
RECURSIVE ProgressOf(_)
ProgressOf(log) ==
    IF log = <<>> THEN <<>>
    ELSE IF Head(log).sig = "progress"
         THEN <<Head(log).val>> \o ProgressOf(Tail(log))
         ELSE ProgressOf(Tail(log))

IsTerminal(signal) == signal.sig \in {"finished", "error"}

\* The positions of the log of loader i that hold signal `sig`.
Positions(i, sig) == { k \in 1..Len(emitted[i]) : emitted[i][k].sig = sig }

\* C1: every value a load emits on its progress signal lies in 0..100,
\* whatever the file size, the number of messages and the pre-scan count.
C1_ProgressInRange ==
    \A i \in Loaders :
        \A k \in Positions(i, "progress") : emitted[i][k].val \in 0..100

\* C3: a load of an existing, readable, well-formed mbox file never emits
\* error, and when run has returned it has emitted finished with one record
\* per message of the file.
C3_GoodFileLoads ==
    \A i \in Loaders :
        threads[i].mbox_path \in GoodFiles =>
            /\ Positions(i, "error") = {}
            /\ threads[i].pc = "done" =>
                   \E k \in Positions(i, "finished") :
                       Len(emitted[i][k].val) = Len(Mbox(threads[i].mbox_path.bytes))

\* C6: a terminal signal (finished or error) is the last signal of its load,
\* so there is at most one and no progress follows it; a load whose run has
\* returned has emitted one, a load still running has emitted none.
C6_OneTerminalSignal ==
    \A i \in Loaders :
        /\ \A k \in 1..Len(emitted[i]) :
               IsTerminal(emitted[i][k]) => k = Len(emitted[i])
        /\ threads[i].pc = "done" <=>
               (emitted[i] # <<>> /\ IsTerminal(emitted[i][Len(emitted[i])]))

\* A load that emitted progress in both passes and then finished.
C6_Witness ==
    \E i \in Loaders :
        /\ threads[i].pc = "done"
        /\ threads[i].current_message >= 2
        /\ emitted[i][Len(emitted[i])].sig = "finished"
        /\ Cardinality(Positions(i, "progress")) >= 3

\* C7: the progress values of one load never decrease, across the pre-scan,
\* the step from the pre-scan to the messages, and the messages.
C7_ProgressMonotone ==
    \A i \in Loaders :
        LET values == ProgressOf(emitted[i]) IN
        \A k \in 1..(Len(values) - 1) : values[k] <= values[k + 1]

\* A load past the hand-over: progress of the pre-scan, then of a message.
C7_Witness ==
    \E i \in Loaders :
        /\ threads[i].bytes_processed > ChunkSize
        /\ threads[i].current_message >= 1
        /\ Len(ProgressOf(emitted[i])) =
               threads[i].current_message
                   + (threads[i].bytes_processed + ChunkSize - 1) \div ChunkSize

\* q occurs in s as a case-insensitive substring: at some offset every
\* character of q equals, case folded, the character of s there.
OccursIn(q, s) ==
    \E off \in 0..Len(s) :
        /\ off + Len(q) <= Len(s)
        /\ \A k \in 1..Len(q) : LowerChar(q[k]) = LowerChar(s[off + k])

\* The records of msgs of which an enabled field contains the query.
Matching(msgs, q, match_subject, match_body) ==
    SelectSeq(msgs, LAMBDA r :
        \/ match_subject /\ OccursIn(q, r.subject)
        \/ match_body /\ OccursIn(q, r.body))

\* A step in which MainWindow.search ran: on the button, or at the end of
\* loading_finished.
WindowSearched == ClickSearch \/ \E i \in Loaders : loading_finished(i)

\* C4: a search returns exactly the records of which at least one enabled
\* field contains the query as a case-insensitive substring, in the window
\* (Subject, Body, Both), in main's menu (choices 1, 2, 3) and for a caller
\* of MBoxSearcher.search (any two flags).
C4_SearchExact ==
    [][ /\ WindowSearched =>
            results_table' = Matching(messages', search_input,
                                      search_type \in {"Subject", "Both"},
                                      search_type \in {"Body", "Both"})
        /\ \A choice \in {"1", "2", "3"}, q \in Queries \ {<<>>} :
               MainMenu(choice, q) =>
                   displayed' = Matching(searcher_messages, q,
                                         choice \in {"1", "3"},
                                         choice \in {"2", "3"})
        /\ \A q \in Queries, ss \in BOOLEAN, sb \in BOOLEAN :
               ApiSearch(q, ss, sb) =>
                   displayed' = Matching(searcher_messages, q, ss, sb)
      ]_vars

\* The window shows the result of a search in bodies only that left out a
\* record whose subject contains the query and kept one whose body does.
C4_Witness ==
    /\ search_type = "Body"
    /\ search_input # <<>>
    /\ results_table # <<>>
    /\ results_table = Matching(messages, search_input, FALSE, TRUE)
    /\ \E k \in 1..Len(messages) :
           /\ OccursIn(search_input, messages[k].subject)
           /\ \A j \in 1..Len(results_table) : results_table[j] # messages[k]

\* sub is a subsequence of seq: sub can be read off seq from left to right.
RECURSIVE IsSubsequence(_, _)
IsSubsequence(sub, seq) ==
    IF sub = <<>> THEN TRUE
    ELSE IF seq = <<>> THEN FALSE
    ELSE IF Head(sub) = Head(seq)
         THEN IsSubsequence(Tail(sub), Tail(seq))
         ELSE IsSubsequence(sub, Tail(seq))

\* C5: the result of a search is a subsequence of the records held: the
\* matches in the order of the input, none more often than in the input.
C5_SearchKeepsOrder ==
    [][ /\ WindowSearched => IsSubsequence(results_table', messages')
        /\ (displayed' # displayed) => IsSubsequence(displayed', searcher_messages)
      ]_vars

\* Of three records held the first and the third match: both programs show
\* the first, then the third.
C5_Witness ==
    \/ /\ Len(messages) = 3
       /\ results_table = <<messages[1], messages[3]>>
    \/ /\ Len(searcher_messages) = 3
       /\ displayed = <<searcher_messages[1], searcher_messages[3]>>

\* Every signal loader i has emitted reached its slot.
AllDelivered(i) == delivered[i] = Len(emitted[i])

\* Loader i emitted finished and loading_finished ran for it.
FinishedDelivered(i) ==
    \E k \in Positions(i, "finished") : k <= delivered[i]

\* The list loader i emitted with finished.
FinishedList(i) == emitted[i][CHOOSE k \in Positions(i, "finished") : TRUE].val

\* C2: with a second load started while the first was under way, once both
\* loaders have emitted finished and both signals were taken, the window
\* holds the records of the load started last.
C2_LatestLoadAdopted ==
    ( /\ loader = 2
      /\ \A i \in 1..2 : FinishedDelivered(i) /\ AllDelivered(i) )
    => messages = FinishedList(2)

\* Loader i has failed: it emitted error.
Failed(i) == Positions(i, "error") # {}

\* C8: a load that fails surfaces one failure and leaves no trace in the
\* records.  In the window: one error box per failed load, none for another
\* load; the step that shows it changes neither the records held nor the
\* results shown; and the records held are always the complete batch of a
\* load that did not fail (or still the empty list of the constructor).  On
\* the command line: load_mbox prints one error and the process exits, so
\* that no search runs afterwards.
C8_FailureDiscardsPartial ==
    [][ /\ \A i \in Loaders :
               error_boxes'[i] # error_boxes[i] =>
                   /\ messages' = messages
                   /\ results_table' = results_table
                   /\ Failed(i)
                   /\ error_boxes'[i] = 1
        /\ \A i \in Loaders :
               (Failed(i) /\ AllDelivered(i))' => error_boxes'[i] = 1
        /\ \/ messages' = <<>>
           \/ \E i \in Loaders :
                  /\ ~Failed(i)'
                  /\ FinishedDelivered(i)'
                  /\ messages' = FinishedList(i)'
                  /\ messages' = LoaderRecords(threads'[i].mbox_path.bytes)
        /\ cli_errors' # cli_errors => (cli_errors' = 1 /\ cli_pc' = "exited")
        /\ cli_pc = "exited" => (cli_pc' = "exited" /\ displayed' = displayed)
      ]_vars

\* The window holds the records of a first load; a second load has parsed a
\* message, failed, and its error box is up.
C8_Witness ==
    /\ loader = 2
    /\ messages # <<>>
    /\ FinishedDelivered(1)
    /\ messages = FinishedList(1)
    /\ threads[2].messages # <<>>
    /\ Failed(2)
    /\ error_boxes[2] = 1

\* C9: the records held are exactly those of the load completed last: in the
\* window one whole batch of one load, and in an MBoxSearcher whose load_mbox
\* has returned, however often it was called, the records of its file.
C9_HeldIsLastBatch ==
    /\ \/ messages = <<>>
       \/ \E i \in Loaders : FinishedDelivered(i) /\ messages = FinishedList(i)
    /\ cli_pc = "menu" => searcher_messages = Records(mbox_path.bytes)

\* The positions of bytes at which a line starts with "From ".
FromBoundaries(bytes) ==
    { p \in 1..Len(bytes) :
        /\ p = 1 \/ bytes[p - 1] = NL
        /\ p + Len(FromBytes) - 1 <= Len(bytes)
        /\ SubSeq(bytes, p, p + Len(FromBytes) - 1) = FromBytes }

\* The bytes from the n-th boundary up to the next one, or the end.
Segment(bytes, n) ==
    LET bs == FromBoundaries(bytes)
        start == CHOOSE p \in bs : Cardinality({q \in bs : q < p}) = n - 1
        later == {q \in bs : q > start}
        stop == IF later = {} THEN Len(bytes)
                ELSE (CHOOSE q \in later : \A r \in later : q <= r) - 1
    IN  SubSeq(bytes, start, stop)

\* The records are those of the file: as many as boundaries, the n-th one
\* holding the subject and the body of the n-th segment.
RecordsMatch(records, bytes) ==
    /\ Len(records) = Cardinality(FromBoundaries(bytes))
    /\ \A n \in 1..Len(records) :
           Segment(bytes, n) =
               FromBytes \o <<NL, "S">> \o records[n].subject \o <<NL, NL>>
                   \o records[n].body

\* C10: for every valid mbox file a load returns as many records as the file
\* has "From " line starts, the n-th record being the n-th message: the
\* window's loader, once run has returned, has emitted them with finished,
\* and main holds them once load_mbox has returned.
C10_RecordsMatchBoundaries ==
    /\ \A i \in Loaders :
           (threads[i].pc = "done" /\ threads[i].mbox_path \in GoodFiles) =>
               \E k \in Positions(i, "finished") :
                   RecordsMatch(emitted[i][k].val, threads[i].mbox_path.bytes)
    /\ (program = "cli" /\ cli_pc = "menu" /\ mbox_path \in GoodFiles) =>
           RecordsMatch(searcher_messages, mbox_path.bytes)

\* What does hold: whenever a loader emits finished, and whenever main's
\* load_mbox returns, the records match the boundaries of the file.
RecordsMatchWhenReturned ==
    /\ \A i \in Loaders :
           \A k \in Positions(i, "finished") :
               RecordsMatch(emitted[i][k].val, threads[i].mbox_path.bytes)
    /\ (program = "cli" /\ cli_pc = "menu") =>
           RecordsMatch(searcher_messages, mbox_path.bytes)

\* The timestamp the Date header of a message denotes, None when the
\* message has no Date header or one that is no date.
Timestamp(msg) ==
    LET dates == { k \in 1..HeaderCount(msg) : msg[k][1] = "D" } IN
    IF \E k \in dates : msg[k] = <<"D", "1", NL>> THEN "day 1"
    ELSE IF \E k \in dates : msg[k] = <<"D", "2", NL>> THEN "day 2"
    ELSE None

\* C11: a message without a Date header, or with one that does not parse,
\* yields a record whose date is None, and every record of the batch has the
\* timestamp of its own message; no load is aborted by a date: the window's
\* loader emits no error for one and, wherever the pre-scan found a message
\* to count, finishes with one record per message; MBoxSearcher.load_mbox
\* prints no error and holds one record per message and call.
C11_BadDateIsAbsent ==
    /\ \A i \in Loaders :
           LET mbox == Mbox(threads[i].mbox_path.bytes) IN
           /\ \A k \in 1..Len(threads[i].messages) :
                  threads[i].messages[k].date = Timestamp(mbox[k])
           /\ \A k \in Positions(i, "error") : emitted[i][k].val # "ValueError"
           /\ (threads[i].pc = "done" /\ threads[i].message_count > 0) =>
                  \E k \in Positions(i, "finished") :
                      /\ Len(emitted[i][k].val) = Len(mbox)
                      /\ \A n \in 1..Len(mbox) :
                             emitted[i][k].val[n].date = Timestamp(mbox[n])
    /\ LET mbox == Mbox(mbox_path.bytes) IN
       /\ cli_errors = 0
       /\ Len(searcher_messages) = searcher_loads * Len(mbox)
       /\ \A k \in 1..Len(searcher_messages) :
              searcher_messages[k].date =
                  Timestamp(mbox[((k - 1) % Len(mbox)) + 1])

\* The window holds three records of one load: the first with its date, the
\* second of a message whose Date header does not parse, the third of a
\* message without one.
C11_Witness ==
    /\ loader = 1
    /\ FinishedDelivered(1)
    /\ Len(messages) = 3
    /\ LET mbox == Mbox(threads[1].mbox_path.bytes) IN
       /\ GetHeader(Headers(mbox[2]), "D") = <<"?">>
       /\ \A k \in 1..HeaderCount(mbox[3]) : mbox[3][k][1] # "D"
    /\ messages[1].date = "day 1"
    /\ messages[2].date = None
    /\ messages[3].date = None

\* C12: the search at the end of loading_finished shows every record of the
\* new batch, in order, whatever the search box and the combo box hold.
C12_InitialSearchShowsAll ==
    [][ \A i \in Loaders : loading_finished(i) => results_table' = messages'
      ]_vars

\* C13 as stated: a search for the empty string returns all records held,
\* for every combination of the two flags.
C13_EmptyQueryAnyFlags ==
    [][ \A ss \in BOOLEAN, sb \in BOOLEAN :
            ApiSearch(<<>>, ss, sb) => displayed' = searcher_messages
      ]_vars

\* C13: a search for the empty string returns all records held, in order,
\* whenever at least one field is enabled (either flag of MBoxSearcher.search,
\* any entry of the window's combo box), and none with both flags off.
C13_EmptyQueryAll ==
    [][ /\ \A ss \in BOOLEAN, sb \in BOOLEAN :
               ApiSearch(<<>>, ss, sb) =>
                   displayed' = IF ss \/ sb THEN searcher_messages ELSE <<>>
        /\ (WindowSearched /\ search_input = <<>>) => results_table' = messages'
      ]_vars

\* A caller of MBoxSearcher.search is shown all of at least two records.
C13_Witness ==
    /\ program = "api"
    /\ Len(searcher_messages) >= 2
    /\ displayed = searcher_messages

\* C14: no caller hands an empty query to the search: Search with an empty
\* search box leaves the results table as it is, and a turn of main's menu
\* with an empty query leaves what is displayed as it is.
C14_EmptyQueryRejected ==
    [][ /\ (ClickSearch /\ search_input = <<>>) => results_table' = results_table
        /\ \A choice \in Choices :
               MainMenu(choice, <<>>) => displayed' = displayed
      ]_vars

\* The parts of a multipart message that have the content type and decode.
TextParts(msg, content_type) ==
    SelectSeq(SplitParts(BodyLines(msg), FALSE, <<>>), LAMBDA part :
        /\ get_content_type(part) = content_type
        /\ \A k \in 1..Len(PartPayload(part)) : PartPayload(part)[k] # "#")

\* Their texts, joined in the order of the parts.
Joined(parts) == Concat([k \in 1..Len(parts) |-> PartPayload(parts[k])])

\* The payload of a message that is no multipart decodes.
PayloadDecodes(msg) == \A k \in 1..Len(Payload(msg)) : Payload(msg)[k] # "#"

\* The body the window's loader is to give a message.
WindowBody(msg) ==
    IF is_multipart(msg)
    THEN IF Joined(TextParts(msg, "text/html")) # <<>>
         THEN Joined(TextParts(msg, "text/html"))
         ELSE Joined(TextParts(msg, "text/plain"))
    ELSE IF PayloadDecodes(msg) THEN Payload(msg) ELSE RawPayload(msg)

\* The body MBoxSearcher is to give a message.
SearcherBody(msg) ==
    IF is_multipart(msg)
    THEN Joined(TextParts(msg, "text/plain"))
    ELSE IF PayloadDecodes(msg) THEN Payload(msg) ELSE RawPayload(msg)

\* The text "z" of the attachments and preambles occurs in the body.
HasAttachmentText(body) == \E k \in 1..Len(body) : body[k] = "z"

\* C15: the body of a record is built from the text parts that decode, in
\* their order: in the window's loader the html parts when they give any
\* text and else the plain parts, in MBoxSearcher the plain parts; nothing of
\* a part of another type; and for a message that is no multipart, the
\* payload, raw when it does not decode.
C15_BodyFromTextParts ==
    /\ \A i \in Loaders :
           LET mbox == Mbox(threads[i].mbox_path.bytes) IN
           \A k \in 1..Len(threads[i].messages) :
               /\ threads[i].messages[k].body = WindowBody(mbox[k])
               /\ is_multipart(mbox[k]) =>
                      ~HasAttachmentText(threads[i].messages[k].body)
    /\ LET mbox == Mbox(mbox_path.bytes) IN
       \A k \in 1..Len(searcher_messages) :
           LET msg == mbox[((k - 1) % Len(mbox)) + 1] IN
           /\ searcher_messages[k].body = SearcherBody(msg)
           /\ is_multipart(msg) => ~HasAttachmentText(searcher_messages[k].body)

\* The window holds the records of a message with a plain part, an
\* attachment and an html part, shown by its html text, and of a message
\* whose html part and first plain part do not decode, shown by the plain
\* part that does.
C15_Witness ==
    /\ loader = 1
    /\ FinishedDelivered(1)
    /\ Len(messages) = 3
    /\ LET mbox == Mbox(threads[1].mbox_path.bytes) IN
       /\ is_multipart(mbox[1])
       /\ Len(TextParts(mbox[1], "text/plain")) = 1
       /\ Len(TextParts(mbox[1], "text/html")) = 1
       /\ is_multipart(mbox[2])
       /\ TextParts(mbox[2], "text/html") = <<>>
    /\ messages[1].body = <<"h">>
    /\ messages[2].body = <<"b">>

=============================================================================
